---- MODULE Spec2Model ----
(***************************************************************************)
(* Lookahead<I>: an iterator adapter that buffers items of a fused inner   *)
(* iterator in a VecDeque so that the item n iterations ahead can be       *)
(* inspected without advancing (src/src/lib.rs).                           *)
(*                                                                         *)
(* Option<T> is modelled as a sequence of length <= 1: None is <<>> and    *)
(* Some(x) is <<x>>.  usize arithmetic keeps its width: a sum that exceeds *)
(* UsizeMax panics in a build with overflow checks and wraps in one        *)
(* without; the build profile is fixed in the initial state.               *)
(***************************************************************************)
EXTENDS Integers, Sequences, FiniteSets, TLC

VARIABLES
    la,         \* the adapter: [iter: Fuse<I>, queue: VecDeque<I::Item>, cap]
    plain,      \* an adapter built by new() over the same iterable, driven in lockstep
    checks,     \* TRUE: the build has overflow checks (debug); FALSE: it wraps (release)
    panicked,   \* TRUE once a call has panicked
    source,     \* the wrapped iterator as it was handed to the constructor
    returned,   \* the items next() has returned so far, in order
    last,       \* the most recent call and what it returned
    prev,       \* the call before it: its op, n, ret and the queue length it found
    built,      \* the constructor call that built la
    requested   \* how many items lookahead calls have asked to be visible: the
                \* largest n + 1 so far, each item next() returns taking one off

vars == <<la, plain, checks, panicked, source, returned, last, prev, built, requested>>

----------------------------------------------------------------------------
(* Bounds of the model *)

\* longest script of a finite wrapped iterator
MaxLen == 2
\* small lookahead distances are 0..MaxN
MaxN == 2
\* most items an endless iterator is asked to have buffered
MaxQueue == 3
\* largest capacity hint handed to with_capacity
MaxCap == 1
\* most items next() is asked for over an endless iterator
MaxReturned == 3

\* usize::MAX of the target (a 16-bit target: the width of usize is the
\* target's pointer width)
UsizeMax == 65535

----------------------------------------------------------------------------
(* Option *)

None == <<>>

Some(x) == <<x>>

\* two distinct item values: the adapter never inspects an item
Items == {1, 2}

Min(a, b) == IF a <= b THEN a ELSE b

Max(a, b) == IF a >= b THEN a ELSE b

----------------------------------------------------------------------------
(* The wrapped iterator I: Iterator.  data is the script of what successive *)
(* next() calls answer (an Option each), pos the index of the next answer; *)
(* past the script's end the answer is None.  kind selects the iterator:   *)
(*   "slice"   an ExactSizeIterator (slice::Iter): never an item after None *)
(*   "inexact" a fused iterator whose size_hint is valid but not exact      *)
(*   "from_fn" an arbitrary closure: default size_hint (0, None), and it    *)
(*             may answer Some again after it has answered None             *)
(*   "repeat"  an endless iterator: data[1] forever, size_hint (MAX, None)  *)
(*   "range"   0..=usize::MAX: the items 0, 1, ... usize::MAX, one more    *)
(*             than usize counts; its size_hint is (MAX, None) at first    *)
(*             and exact once an item has been pulled                      *)
(***************************************************************************)

Kinds == {"slice", "inexact", "from_fn", "repeat", "range"}

RECURSIVE SeqsUpTo(_, _)
SeqsUpTo(S, k) ==
    IF k = 0 THEN {<<>>}
    ELSE LET shorter == SeqsUpTo(S, k - 1)
         IN shorter \cup {Append(s, x) : s \in {t \in shorter : Len(t) = k - 1}, x \in S}

SomeItems == {Some(x) : x \in Items}

Scripts(kind) ==
    CASE kind = "slice"   -> SeqsUpTo(SomeItems, MaxLen)
      [] kind = "inexact"   -> SeqsUpTo(SomeItems, MaxLen)
      [] kind = "from_fn" -> SeqsUpTo(SomeItems \cup {None}, MaxLen)
      [] kind = "repeat"  -> {<<Some(x)>> : x \in Items}
      [] kind = "range"   -> {<<>>}

Iterables ==
    UNION {{[kind |-> k, data |-> d, pos |-> 1] : d \in Scripts(k)} : k \in Kinds}

\* I::next
InnerNext(it) ==
    IF it.kind = "repeat"
    THEN [item |-> it.data[1], iter |-> [it EXCEPT !.pos = @ + 1]]
    ELSE IF it.kind = "range"
    THEN IF it.pos > UsizeMax + 1
         THEN [item |-> None, iter |-> it]
         ELSE [item |-> Some(it.pos - 1), iter |-> [it EXCEPT !.pos = @ + 1]]
    ELSE IF it.pos > Len(it.data)
         THEN [item |-> None, iter |-> it]
         ELSE [item |-> it.data[it.pos], iter |-> [it EXCEPT !.pos = @ + 1]]

\* whether the iterator never ends (std::iter::Repeat) or has more items
\* than a caller can exhaust (0..=usize::MAX)
Endless(it) == it.kind \in {"repeat", "range"}

\* the items 0..=usize::MAX still has
RangeLeft(it) == UsizeMax + 2 - it.pos

\* the items one pass over a finite iterator yields before its first None
RECURSIVE Pass(_)
Pass(it) ==
    LET r == InnerNext(it) IN
    IF r.item = None THEN <<>> ELSE <<r.item[1]>> \o Pass(r.iter)

\* I::size_hint
InnerSizeHint(it) ==
    CASE it.kind = "slice"   -> [lower |-> Len(Pass(it)), upper |-> Some(Len(Pass(it)))]
      [] it.kind = "inexact"   -> [lower |-> Len(Pass(it)) \div 2,
                                 upper |-> Some(2 * Len(Pass(it)))]
      [] it.kind = "from_fn" -> [lower |-> 0, upper |-> None]
      [] it.kind = "repeat"  -> [lower |-> UsizeMax, upper |-> None]
      [] it.kind = "range"   -> [lower |-> Min(RangeLeft(it), UsizeMax),
                                 upper |-> IF RangeLeft(it) > UsizeMax THEN None
                                           ELSE Some(RangeLeft(it))]

----------------------------------------------------------------------------
(* Fuse<I>: [iter, some]; some = FALSE is Fuse's iter field being None.    *)
(* (For an I that is itself fused the library may skip clearing the field; *)
(* such an I keeps answering None, so the answers are the same.)           *)

\* Iterator::fuse
Fuse(it) == [iter |-> it, some |-> TRUE]

\* faulty variant: the None is recorded but every pull still reaches the iterator
FuseNextUnfused(f) ==
    LET r == InnerNext(f.iter)
    IN [item |-> r.item, fuse |-> [iter |-> r.iter, some |-> r.item # None]]

\* Fuse::next
FuseNext(f) ==
    IF ~f.some
    THEN [item |-> None, fuse |-> f]
    ELSE LET r == InnerNext(f.iter) IN
         IF r.item = None
         THEN [item |-> None, fuse |-> [iter |-> r.iter, some |-> FALSE]]
         ELSE [item |-> r.item, fuse |-> [iter |-> r.iter, some |-> TRUE]]

\* Fuse::size_hint
FuseSizeHint(f) ==
    IF f.some THEN InnerSizeHint(f.iter) ELSE [lower |-> 0, upper |-> Some(0)]

\* count pulls of an endless iterator, taken at once
Burst(it, count) ==
    [items |-> [i \in 1..count |-> InnerNext([it EXCEPT !.pos = @ + i - 1]).item[1]],
     iter  |-> [it EXCEPT !.pos = @ + count]]

\* iter.take(count) drained by queue.extend: at most count pulls, stopping
\* at the first None
RECURSIVE Take(_, _)
Take(f, count) ==
    IF count = 0
    THEN [items |-> <<>>, fuse |-> f]
    ELSE IF f.some /\ Endless(f.iter)
    THEN [items |-> Burst(f.iter, count).items,
          fuse |-> [f EXCEPT !.iter = Burst(f.iter, count).iter]]
    ELSE LET r == FuseNext(f) IN
         IF r.item = None
         THEN [items |-> <<>>, fuse |-> r.fuse]
         ELSE LET rest == Take(r.fuse, count - 1)
              IN [items |-> <<r.item[1]>> \o rest.items, fuse |-> rest.fuse]

----------------------------------------------------------------------------
(* VecDeque *)

\* faulty variant: the storage never grows, items beyond it are dropped
ExtendWithinCapacity(queue, cap, items) ==
    [queue |-> SubSeq(queue \o items, 1, Min(Len(queue \o items), cap)), cap |-> cap]

\* VecDeque::extend: push each item at the back, growing the storage when full
Extend(queue, cap, items) ==
    LET q == queue \o items
    IN [queue |-> q, cap |-> IF Len(q) <= cap THEN cap ELSE Max(Len(q), 2 * cap)]

\* VecDeque::get
Get(queue, n) == IF n < Len(queue) THEN Some(queue[n + 1]) ELSE None

----------------------------------------------------------------------------
(* usize arithmetic *)

Overflows(x) == x > UsizeMax

Wrap(x) == x % (UsizeMax + 1)

----------------------------------------------------------------------------
(* Lookahead *)

\* Lookahead::new (and the free function lookahead)
New(iterable) == [iter |-> Fuse(iterable), queue |-> <<>>, cap |-> 0]

\* Lookahead::with_capacity
WithCapacity(iterable, capacity) ==
    [iter |-> Fuse(iterable), queue |-> <<>>, cap |-> capacity]

\* n - enqueued + 1, computed when n >= enqueued
TakeCount(self, n) == n - Len(self.queue) + 1

\* faulty variant: takes n + 1 more items whatever is already enqueued
LookaheadCallRefetch(self, n, oc) ==
    IF Overflows(n + 1) /\ oc
    THEN [self |-> self, ret |-> None, panic |-> TRUE]
    ELSE LET t == Take(self.iter, Wrap(n + 1))
             e == Extend(self.queue, self.cap, t.items)
         IN [self  |-> [iter |-> t.fuse, queue |-> e.queue, cap |-> e.cap],
             ret   |-> Get(e.queue, n),
             panic |-> FALSE]

\* faulty variant: takes one item more than is needed to reach n
LookaheadCallOneMore(self, n, oc) ==
    IF n >= Len(self.queue)
    THEN IF Overflows(TakeCount(self, n) + 1) /\ oc
         THEN [self |-> self, ret |-> None, panic |-> TRUE]
         ELSE LET t == Take(self.iter, Wrap(TakeCount(self, n) + 1))
                  e == Extend(self.queue, self.cap, t.items)
              IN [self  |-> [iter |-> t.fuse, queue |-> e.queue, cap |-> e.cap],
                  ret   |-> Get(e.queue, n),
                  panic |-> FALSE]
    ELSE [self |-> self, ret |-> Get(self.queue, n), panic |-> FALSE]

\* Lookahead::lookahead
LookaheadCall(self, n, oc) ==
    LET enqueued == Len(self.queue) IN
    IF n >= enqueued
    THEN IF Overflows(TakeCount(self, n)) /\ oc
         THEN [self |-> self, ret |-> None, panic |-> TRUE]
         ELSE LET t == Take(self.iter, Wrap(TakeCount(self, n)))
                  e == Extend(self.queue, self.cap, t.items)
              IN [self  |-> [iter |-> t.fuse, queue |-> e.queue, cap |-> e.cap],
                  ret   |-> Get(e.queue, n),
                  panic |-> FALSE]
    ELSE [self |-> self, ret |-> Get(self.queue, n), panic |-> FALSE]

\* faulty variant: asks the iterator first and the queue second
NextCallIterFirst(self) ==
    LET r == FuseNext(self.iter) IN
    IF r.item # None
    THEN [self |-> [self EXCEPT !.iter = r.fuse], ret |-> r.item]
    ELSE IF self.queue # <<>>
         THEN [self |-> [self EXCEPT !.iter = r.fuse, !.queue = Tail(@)],
               ret |-> Some(Head(self.queue))]
         ELSE [self |-> [self EXCEPT !.iter = r.fuse], ret |-> None]

\* faulty variant: returns the queue's front without removing it
NextCallKeepsFront(self) ==
    IF self.queue # <<>>
    THEN [self |-> self, ret |-> Some(Head(self.queue))]
    ELSE LET r == FuseNext(self.iter)
         IN [self |-> [self EXCEPT !.iter = r.fuse], ret |-> r.item]

\* faulty variant: pops the queue's back instead of its front
NextCallPopBack(self) ==
    IF self.queue # <<>>
    THEN [self |-> [self EXCEPT !.queue = SubSeq(@, 1, Len(@) - 1)],
          ret |-> Some(self.queue[Len(self.queue)])]
    ELSE LET r == FuseNext(self.iter)
         IN [self |-> [self EXCEPT !.iter = r.fuse], ret |-> r.item]

\* Lookahead::next
NextCall(self) ==
    IF self.queue # <<>>
    THEN [self |-> [self EXCEPT !.queue = Tail(@)], ret |-> Some(Head(self.queue))]
    ELSE LET r == FuseNext(self.iter)
         IN [self |-> [self EXCEPT !.iter = r.fuse], ret |-> r.item]

\* faulty variant: forgets the queued items
SizeHintCallNoQueue(self, oc) ==
    LET h == FuseSizeHint(self.iter)
    IN [panic |-> FALSE, lower |-> h.lower, upper |-> h.upper]

\* faulty variant: adds the queue's capacity instead of its length
SizeHintCallCapacity(self, oc) ==
    LET h == FuseSizeHint(self.iter)
        lo == h.lower + self.cap
        up == IF h.upper = None THEN 0 ELSE h.upper[1] + self.cap
    IN IF oc /\ (Overflows(lo) \/ Overflows(up))
       THEN [panic |-> TRUE, lower |-> 0, upper |-> None]
       ELSE [panic |-> FALSE,
             lower |-> Wrap(lo),
             upper |-> IF h.upper = None THEN None ELSE Some(Wrap(up))]

\* Lookahead::size_hint
SizeHintCall(self, oc) ==
    LET queued == Len(self.queue)
        h == FuseSizeHint(self.iter)
        lo == h.lower + queued
        up == IF h.upper = None THEN 0 ELSE h.upper[1] + queued
    IN IF oc /\ (Overflows(lo) \/ Overflows(up))
       THEN [panic |-> TRUE, lower |-> 0, upper |-> None]
       ELSE [panic |-> FALSE,
             lower |-> Wrap(lo),
             upper |-> IF h.upper = None THEN None ELSE Some(Wrap(up))]

----------------------------------------------------------------------------
(* The calls a caller makes *)

NoHint == [lower |-> 0, upper |-> None]

Call(op, n, r, h, pr, ph, pan, ppan, pre) ==
    [op |-> op, n |-> n, ret |-> r, hint |-> h, panic |-> pan,
     plainRet |-> pr, plainHint |-> ph, plainPanic |-> ppan, pre |-> pre]

\* what is kept of a call once another has been made
Summary(c) == [op |-> c.op, n |-> c.n, ret |-> c.ret, enqueued |-> Len(c.pre.queue)]

\* lookahead distances a caller passes: small ones and the largest of usize
NValues == (0..MaxN) \cup {UsizeMax}

Capacities == 0..MaxCap

Init ==
    /\ source \in Iterables
    /\ checks \in BOOLEAN
    /\ built \in {[ctor |-> "new", capacity |-> 0]}
                 \cup {[ctor |-> "with_capacity", capacity |-> c] : c \in Capacities}
    /\ la = IF built.ctor = "new" THEN New(source)
            ELSE WithCapacity(source, built.capacity)
    /\ plain = New(source)
    /\ panicked = FALSE
    /\ returned = <<>>
    /\ last = Call("new", 0, None, NoHint, None, NoHint, FALSE, FALSE, la)
    /\ prev = Summary(last)
    /\ requested = 0

\* an endless iterator is asked for at most MaxQueue buffered items
Affordable(self, n) ==
    Endless(self.iter.iter) /\ n >= Len(self.queue)
        => Len(self.queue) + Wrap(TakeCount(self, n)) <= MaxQueue

DoLookahead(n) ==
    /\ ~panicked
    /\ Affordable(la, n)
    /\ LET r == LookaheadCall(la, n, checks)
           p == LookaheadCall(plain, n, checks)
       IN /\ la' = r.self
          /\ plain' = p.self
          /\ panicked' = r.panic
          /\ last' = Call("lookahead", n, r.ret, NoHint, p.ret, NoHint, r.panic, p.panic, la)
    /\ prev' = Summary(last)
    /\ requested' = Max(requested, n + 1)
    /\ UNCHANGED <<checks, source, returned, built>>

DoNext ==
    /\ ~panicked
    /\ Endless(source) => Len(returned) < MaxReturned
    /\ LET r == NextCall(la)
           p == NextCall(plain)
       IN /\ la' = r.self
          /\ plain' = p.self
          /\ returned' = IF r.ret = None THEN returned ELSE Append(returned, r.ret[1])
          /\ last' = Call("next", 0, r.ret, NoHint, p.ret, NoHint, FALSE, FALSE, la)
    /\ prev' = Summary(last)
    /\ requested' = IF NextCall(la).ret = None THEN requested
                     ELSE Max(requested - 1, 0)
    /\ UNCHANGED <<checks, panicked, source, built>>

DoSizeHint ==
    /\ ~panicked
    /\ LET r == SizeHintCall(la, checks)
           p == SizeHintCall(plain, checks)
       IN /\ panicked' = r.panic
          /\ last' = Call("size_hint", 0, None, [lower |-> r.lower, upper |-> r.upper],
                          None, [lower |-> p.lower, upper |-> p.upper], r.panic, p.panic, la)
    /\ prev' = Summary(last)
    /\ UNCHANGED <<la, plain, checks, source, returned, built, requested>>

Next ==
    \/ \E n \in NValues : DoLookahead(n)
    \/ DoNext
    \/ DoSizeHint

Spec == Init /\ [][Next]_vars

----------------------------------------------------------------------------
(* What a caller can observe, computed by running the calls *)

\* the first k items the wrapped iterator yields when iterated on its own
RECURSIVE Alone(_, _)
Alone(it, k) ==
    IF k = 0 THEN <<>>
    ELSE LET r == InnerNext(it) IN
         IF r.item = None THEN <<>> ELSE <<r.item[1]>> \o Alone(r.iter, k - 1)

\* the items next() returns until it first returns None (finite iterators)
RECURSIVE Drain(_)
Drain(self) ==
    LET r == NextCall(self) IN
    IF r.ret = None THEN <<>> ELSE <<r.ret[1]>> \o Drain(r.self)

\* what the (k+1)-th of k+1 consecutive next() calls returns; a call that
\* returns None and leaves the adapter as it was is repeated by all later ones
RECURSIVE NthNext(_, _)
NthNext(self, k) ==
    LET r == NextCall(self) IN
    IF k = 0 \/ (r.ret = None /\ r.self = self) THEN r.ret ELSE NthNext(r.self, k - 1)

IsCall(c, op) == c.op = op

----------------------------------------------------------------------------
(* C1 *)

\* C1: lookahead(n) returns what the (n+1)-th of n+1 following next() calls
\* returns (None exactly when that call returns None) and consumes nothing.
\* (Over an endless iterator the n+1 calls are run for n <= MaxN.)
C1_LookaheadIsNthNext ==
    (IsCall(last, "lookahead") /\ (Endless(source) => last.n <= MaxN))
        => /\ ~last.panic
           /\ last.ret = NthNext(last.pre, last.n)
           /\ last.ret = NthNext(la, last.n)
           /\ ~Endless(source) => Drain(la) = Drain(last.pre)

----------------------------------------------------------------------------
(* C2 *)

\* C2: whatever lookahead calls are interleaved, the items next() returns are
\* the wrapped iterator's own items, in order, and next() returns None only
\* when all of them have been returned.
C2_NextReproducesSource ==
    /\ returned = Alone(source, Len(returned))
    /\ (IsCall(last, "next") /\ last.ret # None)
           => returned # <<>> /\ returned[Len(returned)] = last.ret[1]
    /\ (IsCall(last, "next") /\ last.ret = None)
           => Alone(source, Len(returned) + 1) = returned

C2_Witness ==
    /\ IsCall(last, "next") /\ last.ret = None
    /\ IsCall(prev, "lookahead")
    /\ Len(returned) >= 2 /\ returned[1] # returned[2]

----------------------------------------------------------------------------
(* C3 *)

\* C3: lookahead(n) repeated with no next() in between returns the same item
\* and pulls nothing more from the wrapped iterator.
C3_RepeatedLookahead ==
    (IsCall(last, "lookahead") /\ IsCall(prev, "lookahead") /\ last.n = prev.n
     /\ ~last.panic)
        => /\ last.ret = prev.ret
           /\ la.queue = last.pre.queue
           /\ la.iter.iter.pos = last.pre.iter.iter.pos

C3_Witness ==
    /\ IsCall(last, "lookahead") /\ IsCall(prev, "lookahead") /\ last.n = prev.n
    /\ last.n >= 1 /\ last.ret # None
    /\ prev.enqueued <= last.n

----------------------------------------------------------------------------
(* C4 *)

----------------------------------------------------------------------------
(* C5 *)

\* the wrapped iterator answers None to the next pull
Exhausted(f) == ~f.some \/ InnerNext(f.iter).item = None

\* C5: next() pops the queue's front when there is one and leaves the iterator
\* alone; otherwise it pulls one item and returns it unbuffered; it returns
\* None exactly when the queue is empty and the iterator exhausted.
C5_NextContract ==
    IsCall(last, "next") =>
        /\ last.pre.queue # <<>> =>
               /\ last.ret = Some(last.pre.queue[1])
               /\ la.queue = SubSeq(last.pre.queue, 2, Len(last.pre.queue))
               /\ la.iter = last.pre.iter
        /\ last.pre.queue = <<>> =>
               /\ la.queue = <<>>
               /\ last.ret = Alone(last.pre.iter.iter, IF last.pre.iter.some THEN 1 ELSE 0)
               /\ la.iter.iter.pos <= last.pre.iter.iter.pos + 1
               /\ last.ret # None => la.iter.iter.pos = last.pre.iter.iter.pos + 1
        /\ last.ret = None <=> (last.pre.queue = <<>> /\ Exhausted(last.pre.iter))

C5_Witness ==
    /\ IsCall(prev, "next") /\ prev.enqueued > 0
    /\ IsCall(last, "next") /\ last.pre.queue = <<>> /\ last.ret # None

----------------------------------------------------------------------------
(* C6 *)

Hint(h) == [lower |-> h.lower, upper |-> h.upper]

\* C6: over an ExactSizeIterator size_hint() is (r, Some(r)) with r the number
\* of items next() can still return; lookahead leaves it as it is and a next()
\* that returns an item lowers both by one.
C6_ExactSizeHint ==
    source.kind = "slice" =>
        LET h == SizeHintCall(la, checks)
            b == SizeHintCall(last.pre, checks)
            r == Len(Drain(la))
        IN /\ ~h.panic
           /\ Hint(h) = [lower |-> r, upper |-> Some(r)]
           /\ IsCall(last, "lookahead") => Hint(b) = Hint(h)
           /\ (IsCall(last, "next") /\ last.ret # None)
                  => Hint(b) = [lower |-> r + 1, upper |-> Some(r + 1)]
           /\ IsCall(last, "size_hint") => last.hint = Hint(h)

C6_Witness ==
    /\ source.kind = "slice"
    /\ IsCall(last, "size_hint") /\ last.hint = [lower |-> 1, upper |-> Some(1)]
    /\ IsCall(prev, "next") /\ prev.enqueued = 2

----------------------------------------------------------------------------
(* C7 *)

\* C7 (as claimed): the lower bound size_hint() returns is >= the number of
\* items next() can still return.
C7_LowerAtLeastObtainable ==
    (~Endless(source) /\ ~SizeHintCall(la, checks).panic)
        => SizeHintCall(la, checks).lower >= Len(Drain(la))

\* C7 (amended): the lower bound size_hint() returns is <= the number of items
\* next() can still return, and equal to it over an ExactSizeIterator.
C7_LowerAtMostObtainable ==
    (~Endless(source) /\ ~SizeHintCall(la, checks).panic)
        => /\ SizeHintCall(la, checks).lower <= Len(Drain(la))
           /\ source.kind = "slice" => SizeHintCall(la, checks).lower = Len(Drain(la))

C7_Witness ==
    /\ source.kind = "inexact"
    /\ IsCall(last, "size_hint") /\ ~last.panic
    /\ la.queue # <<>>
    /\ last.hint.lower < Len(Drain(la))

----------------------------------------------------------------------------
(* C8 *)

\* C8: lookahead(n) completes for every n up to usize::MAX without overflow or
\* panic, and returns None when fewer than n + 1 items remain.
C8_LookaheadNeverFails ==
    IsCall(last, "lookahead") =>
        /\ ~last.panic
        /\ last.n >= Len(last.pre.queue) => ~Overflows(TakeCount(last.pre, last.n))
        /\ (~Endless(source) /\ Len(Drain(last.pre)) <= last.n) => last.ret = None

----------------------------------------------------------------------------
(* C9 *)

\* C9: when adding the queue length overflows, size_hint() saturates (or gives
\* the upper bound as unknown); it never wraps and never fails.
C9_SizeHintSaturates ==
    IsCall(last, "size_hint") =>
        LET h == FuseSizeHint(last.pre.iter)
            q == Len(last.pre.queue)
        IN /\ ~last.panic
           /\ last.hint.lower = Min(h.lower + q, UsizeMax)
           /\ \/ last.hint.upper = None
              \/ h.upper # None /\ last.hint.upper = Some(Min(h.upper[1] + q, UsizeMax))

----------------------------------------------------------------------------
(* C10 *)

----------------------------------------------------------------------------
(* C11 *)

\* the items the wrapped iterator it yields before it reaches position pos
RECURSIVE Yielded(_, _)
Yielded(it, pos) ==
    IF it.pos >= pos THEN <<>>
    ELSE LET r == InnerNext(it) IN r.item \o Yielded(r.iter, pos)

\* C11: the queue holds exactly the items pulled from the wrapped iterator and
\* not yet returned by next(), in order: returned ++ queue ++ (items not yet
\* pulled) is the wrapped iterator's sequence.
C11_QueueIsPulledNotReturned ==
    /\ returned \o la.queue = Yielded(source, la.iter.iter.pos)
    /\ ~Endless(source) =>
           returned \o la.queue \o Yielded(la.iter.iter, Len(source.data) + 1)
               = Yielded(source, Len(source.data) + 1)

C11_Witness ==
    /\ ~Endless(source)
    /\ IsCall(last, "next")
    /\ returned # <<>> /\ la.queue # <<>>
    /\ returned[1] # la.queue[1]

----------------------------------------------------------------------------
(* C12 *)

\* C12 (as claimed): the queue's length is <= the largest n + 1 over the
\* lookahead(n) calls made since the most recent next(), 0 when there is none.
\* (Stated for the calls whose bound the last two calls determine: right after
\* a next() the bound is 0, after a lookahead(n) that follows it n + 1.)
C12_QueueWithinRequestedSinceNext ==
    /\ IsCall(last, "next") => Len(la.queue) <= 0
    /\ (IsCall(last, "lookahead") /\ IsCall(prev, "next")) => Len(la.queue) <= last.n + 1

\* C12 (amended): the queue's length is <= the largest, over the lookahead(n)
\* calls made so far, of n + 1 less the number of items next() has returned
\* after that call (0 when there is none): a next() takes one off the bound,
\* it does not reset it.
C12_QueueWithinRequestedWindow ==
    Len(la.queue) <= requested

C12_Witness ==
    /\ IsCall(last, "next")
    /\ la.queue # <<>>
    /\ Len(la.queue) = requested

----------------------------------------------------------------------------
(* C13 *)

\* the items a lookahead(n) on self has to pull: the first n - enqueued + 1
\* the wrapped iterator still yields, fewer when it ends before
ToPull(self, n) ==
    IF self.iter.some THEN Alone(self.iter.iter, n - Len(self.queue) + 1) ELSE <<>>

\* C13: lookahead(n) on a queue of length e pulls nothing and changes nothing
\* when n < e; when n >= e it pulls exactly min(n - e + 1, items left) items
\* and appends them in order; next() pulls at most one item.
\* (Over an endless iterator the items are counted for n <= MaxN.)
C13_PullsExactlyWhatIsNeeded ==
    /\ (IsCall(last, "lookahead") /\ last.n < Len(last.pre.queue))
           => la = last.pre
    /\ (IsCall(last, "lookahead") /\ last.n >= Len(last.pre.queue)
        /\ (Endless(source) => last.n <= MaxN))
           => /\ la.queue = last.pre.queue \o ToPull(last.pre, last.n)
              /\ Yielded(last.pre.iter.iter, la.iter.iter.pos) = ToPull(last.pre, last.n)
    /\ IsCall(last, "next")
           => /\ la.iter.iter.pos <= last.pre.iter.iter.pos + 1
              /\ Len(Yielded(last.pre.iter.iter, la.iter.iter.pos)) <= 1

----------------------------------------------------------------------------
(* C14 *)

\* the queue is empty and the wrapped iterator has answered None
Drained(self) == self.queue = <<>> /\ ~self.iter.some

\* C14: the wrapped iterator is never pulled again after it first answered
\* None, so once next() has returned None every later next() and every later
\* lookahead(n) returns None, also over an iterator that would yield an item
\* after its None.
C14_FusedForGood ==
    /\ ~last.pre.iter.some => la.iter = last.pre.iter
    /\ (IsCall(last, "next") /\ last.ret = None) => Drained(la)
    /\ ((IsCall(last, "next") \/ IsCall(last, "lookahead")) /\ Drained(last.pre)
        /\ ~last.panic)
           => last.ret = None /\ Drained(la)
    /\ ((IsCall(last, "next") \/ IsCall(last, "lookahead"))
        /\ IsCall(prev, "next") /\ prev.ret = None)
           => last.ret = None /\ ~last.panic

----------------------------------------------------------------------------
(* C15 *)

\* the distances n for which lookahead(n + 1), next(), lookahead(n) is run
ShiftNs == (0..MaxN) \cup {UsizeMax - 1}

\* C15: if lookahead(n + 1) returns x, then after one next() lookahead(n)
\* returns the same x.  (Run from every reachable state; over an endless
\* iterator the largest n is run from an empty queue only.)
C15_NextShiftsWindow ==
    \A n \in ShiftNs :
        (Endless(source) /\ n > MaxN => la.queue = <<>>) =>
            LET a == LookaheadCall(la, n + 1, checks)
                c == LookaheadCall(NextCall(a.self).self, n, checks)
            IN ~a.panic => (~c.panic /\ c.ret = a.ret)

----------------------------------------------------------------------------
(* C16 *)

\* the number of items next() can still return (not used for "repeat")
ObtainableCount(self) ==
    IF self.iter.iter.kind = "range"
    THEN Len(self.queue) + (IF self.iter.some THEN RangeLeft(self.iter.iter) ELSE 0)
    ELSE Len(Drain(self))

\* C16: size_hint() is computed from the current state on every call: its
\* upper bound is unknown exactly when the (fused) iterator's is, otherwise it
\* is the iterator's upper bound plus the queue's length, and when known it
\* is >= the number of items next() can still return.
C16_UpperBound ==
    LET h == SizeHintCall(la, checks)
        f == FuseSizeHint(la.iter)
    IN ~h.panic =>
        /\ h.upper = None <=> f.upper = None
        /\ f.upper # None => h.upper = Some(f.upper[1] + Len(la.queue))
        /\ h.upper # None => h.upper[1] >= ObtainableCount(la)
        /\ (IsCall(last, "size_hint") /\ ~last.panic) => last.hint = Hint(h)

====
